---- MODULE Spec2Model ----
(***************************************************************************)
(* Appointment lifecycle and loyalty-voucher issuance of the barbershop    *)
(* backend: the request handlers of appointmentController and              *)
(* loyaltyController, the scheduler's clean-up task and the DatabaseStorage *)
(* methods they call, over the tables of shared/schema.ts.                 *)
(***************************************************************************)
EXTENDS Integers, Sequences, FiniteSets, TLC

(* ------------------------------ bounds -------------------------------- *)

\* appointments ever created (ids are never reused)
MaxAppts == 2
\* appointments ever created under the loyalty specification
MaxLoyaltyAppts == 2
\* largest completed-service count a client reaches
MaxCount == 2
\* voucher configurations ever created
MaxConfigs == 1
\* last value of the clock
MaxNow == 2
\* last value of the clock under the loyalty specification
MaxLoyaltyNow == 1
\* last value of the clock under the voucher specification
MaxVoucherNow == 3
\* clock ticks in one calendar day
TicksPerDay == 2
\* auto-cancellation annotations one appointment's notes may collect
MaxAutoNotes == 1
\* requests that have read and not yet written, per kind
MaxInflight == 2
\* voucher configurations ever created under the configuration specification
MaxOverlapConfigs == 3

(* --------------------------- static tables ---------------------------- *)

Statuses == {"SCHEDULED", "CONFIRMED", "IN_PROGRESS", "COMPLETED", "CANCELLED"}

NonTerminal == {"SCHEDULED", "CONFIRMED", "IN_PROGRESS"}

\* the key is absent from the request body / the value is undefined
Undefined == "undefined"

\* SQL NULL in a text or decimal column
Null == "null"

\* an optional reference or timestamp: <<>> is NULL, <<x>> is the value x
None == <<>>

Some(x) == <<x>>

Users == {"c1", "c2", "ub1", "ub2", "adm", "root"}

Role(u) ==
  CASE u \in {"c1", "c2"} -> "CLIENTE"
    [] u \in {"ub1", "ub2"} -> "BARBEIRO"
    [] u = "adm" -> "ADMIN"
    [] OTHER -> "SUPER_ADMIN"

\* rows of the barbeiros table; b2 is marked unavailable
Barbeiros ==
  { [id |-> "b1", userId |-> "ub1", isAvailable |-> TRUE],
    [id |-> "b2", userId |-> "ub2", isAvailable |-> FALSE] }

\* barber ids a request may carry; b9 names no row
BarberIds == {"b1", "b2", "b9"}

Dates == 0 .. 1

Times == {"09:00"}

\* tokens a notes text is made of
UserNote == "obs"

AutoCancelNote == "[Auto-cancelado por prazo expirado]"

\* decimal strings a request may carry as price; "abc" is no decimal
PriceInputs == {Undefined, "10.00", "abc"}

\* what the decimal(10, 2) column accepts
ValidDecimal(s) == s \in {"0", "10.00"}

ParseFloat(s) ==
  CASE s = "10.00" -> 10
    [] OTHER -> 0

(* ------------------------------ state --------------------------------- *)

VARIABLES
  appointments,         \* rows of the appointments table
  nextApptId,           \* ids handed out so far + 1
  clientServiceCounts,  \* rows of client_service_counts
  voucherConfigs,       \* rows of voucher_configs
  vouchers,             \* rows of vouchers
  now,                  \* the clock (Date.now(), new Date(), sql now())
  last,                 \* the last request and the response it got
  completions,          \* per client: updates that moved an appointment into COMPLETED
  inflight,             \* writes of requests that have read and not yet written
  businessConfig,       \* the BUSINESS_HOURS row of business_config, if any
  slotsResponse,        \* the response to the last available-slots query, if any
  auditSink             \* the condition of the audit sink (system_logs, LOGGING_ENABLED)

vars == <<appointments, nextApptId, clientServiceCounts, voucherConfigs,
          vouchers, now, last, completions, inflight, businessConfig,
          slotsResponse, auditSink>>

DateOf(t) == t \div TicksPerDay

(* ----------------------------- storage -------------------------------- *)

HasBarbeiro(id) == \E b \in Barbeiros : b.id = id

GetBarbeiro(id) == CHOOSE b \in Barbeiros : b.id = id

HasBarbeiroByUserId(userId) == \E b \in Barbeiros : b.userId = userId

GetBarbeiroByUserId(userId) == CHOOSE b \in Barbeiros : b.userId = userId

HasAppointment(appts, id) == \E a \in appts : a.id = id

GetAppointment(appts, id) == CHOOSE a \in appts : a.id = id

StorageCreateAppointment(appts, row) == appts \cup {row}

\* .set({...updates}) skips undefined values; where id = id
StorageUpdateAppointment(appts, id, updates) ==
  { IF a.id = id
      THEN [a EXCEPT
             !.status = IF updates.status = Undefined THEN @ ELSE updates.status,
             !.notes = IF updates.notes = <<Undefined>> THEN @ ELSE updates.notes,
             !.price = IF updates.price = Undefined THEN @ ELSE updates.price]
      ELSE a : a \in appts }

\* no available-slots query has been answered yet
NoSlotsResponse ==
  [code |-> "none", date |-> 0, barberId |-> None, dayOfWeek |-> "none",
   slots |-> <<>>, availableSlots |-> <<>>, busySlots |-> {}]

(* ------------------------------ Init ---------------------------------- *)

\* c1 registered through registerClient, which initialises its count row
Init ==
  /\ appointments = {}
  /\ nextApptId = 1
  /\ clientServiceCounts =
       { [rid |-> 1, userId |-> "c1", completedServices |-> 0, totalSpent |-> 0] }
  /\ voucherConfigs = {}
  /\ vouchers = {}
  /\ now = 0
  /\ last = [op |-> "none", res |-> "none"]
  /\ completions = [u \in Users |-> 0]
  /\ inflight = [voucherWrites |-> {}, configWrites |-> {}, updates |-> {},
                 sweeps |-> {}]
  /\ businessConfig = None
  /\ slotsResponse = NoSlotsResponse
  /\ auditSink = "ok"

(* ------------------------------ audit log ----------------------------- *)

\* conditions of the audit sink: working, the LOGGING_ENABLED lookup fails,
\* the insert into system_logs fails
SinkStates == {"ok", "lookup_fails", "write_fails"}

GetLoggingConfigThrows(sk) == sk = "lookup_fails"

CreateSystemLogThrows(sk) == sk = "write_fails"

\* isLoggingEnabled: no LOGGING_ENABLED row is stored, which means enabled;
\* a failing lookup is caught and answered with enabled as well
IsLoggingEnabled(sk) == IF GetLoggingConfigThrows(sk) THEN TRUE ELSE TRUE

\* logUserAction without its try/catch
LogUserActionUncaught(sk) == CreateSystemLogThrows(sk)

\* logUserAction: the error of createSystemLog is caught and printed
LogUserActionThrows(sk) ==
  LET thrown == CreateSystemLogThrows(sk)
      caught == thrown
  IN thrown /\ ~caught

LogIfEnabledThrows(sk) == IsLoggingEnabled(sk) /\ LogUserActionThrows(sk)

\* the handlers await logIfEnabled after their last write and before they
\* answer with success: an error thrown there reaches the handler's catch
LoggedResponse(res, success, sk) ==
  IF res = success /\ LogIfEnabledThrows(sk) THEN "INTERNAL_ERROR" ELSE res

\* the sink breaks or recovers
SinkChange(sk) ==
  /\ auditSink' = sk
  /\ auditSink # sk
  /\ last' = [op |-> "sink", res |-> "none"]
  /\ UNCHANGED <<appointments, nextApptId, clientServiceCounts, voucherConfigs,
                 vouchers, now, completions, inflight, businessConfig,
                 slotsResponse>>

(* --------------------------- createAppointment ------------------------ *)

\* price: price ? String(price) : null
CreatePrice(price) == IF price \in {Undefined, ""} THEN Null ELSE price

\* createAppointment without the isAvailable check
CreateResponseIgnoringAvailability(barberId, price) ==
  IF ~HasBarbeiro(barberId) THEN "BARBEIRO_NOT_FOUND"
  ELSE IF ~(CreatePrice(price) = Null \/ ValidDecimal(CreatePrice(price)))
    THEN "INTERNAL_ERROR"
  ELSE "CREATED"

\* the response createAppointment gives
CreateResponse(barberId, price) ==
  IF ~HasBarbeiro(barberId) THEN "BARBEIRO_NOT_FOUND"
  ELSE IF ~GetBarbeiro(barberId).isAvailable THEN "BARBEIRO_UNAVAILABLE"
  ELSE IF ~(CreatePrice(price) = Null \/ ValidDecimal(CreatePrice(price)))
    THEN "INTERNAL_ERROR"
  ELSE "CREATED"

\* CreateAppointment with the audit sink in condition sk
CreateAppointmentWithSink(user, body, sk) ==
  /\ LET res == CreateResponse(body.barberId, body.price)
         row == [id |-> nextApptId,
                 clientId |-> user,
                 barberId |-> body.barberId,
                 appointmentDate |-> body.appointmentDate,
                 appointmentTime |-> body.appointmentTime,
                 status |-> "SCHEDULED",
                 notes |-> body.notes,
                 price |-> CreatePrice(body.price)]
     IN /\ last' = [op |-> "create",
              res |-> LoggedResponse(res, "CREATED", sk)]
        /\ IF res = "CREATED"
             THEN /\ appointments' = StorageCreateAppointment(appointments, row)
                  /\ nextApptId' = nextApptId + 1
             ELSE UNCHANGED <<appointments, nextApptId>>
  /\ UNCHANGED <<clientServiceCounts, voucherConfigs, vouchers, now, completions,
                 inflight>>
  /\ UNCHANGED <<businessConfig, slotsResponse, auditSink>>

CreateAppointment(user, body) == CreateAppointmentWithSink(user, body, auditSink)

(* ------------------------- loyalty storage ---------------------------- *)

\* what getClientServiceCount may return as (count, spent) after the handler's
\* `?.completedServices || 0` and `parseFloat(?.totalSpent || '0')`
ReadServiceCount(rows, userId) ==
  IF \E r \in rows : r.userId = userId
    THEN { [completedServices |-> r.completedServices, totalSpent |-> r.totalSpent] :
             r \in {x \in rows : x.userId = userId} }
    ELSE { [completedServices |-> 0, totalSpent |-> 0] }

\* update where userId = userId when a row exists, insert otherwise
UpdateClientServiceCount(rows, userId, completedServices, totalSpent) ==
  IF \E r \in rows : r.userId = userId
    THEN { IF r.userId = userId
             THEN [r EXCEPT !.completedServices = completedServices,
                            !.totalSpent = totalSpent]
             ELSE r : r \in rows }
    ELSE rows \cup { [rid |-> Cardinality(rows) + 1, userId |-> userId,
                      completedServices |-> completedServices,
                      totalSpent |-> totalSpent] }

\* where isActive order by createdAt desc limit 1 (ids follow creation order)
ActiveVoucherConfigs(cfgs) ==
  { c \in cfgs : c.isActive /\ \A d \in cfgs : d.isActive => d.id <= c.id }

\* JavaScript's n % r === 0: n % 0 is NaN, the sign of r does not matter
JsModIsZero(n, r) ==
  IF r = 0 THEN FALSE
  ELSE IF r < 0 THEN n % (0 - r) = 0
  ELSE n % r = 0

QualifiesForVoucher(completedServices, config) ==
  JsModIsZero(completedServices, config.servicesRequired)

\* `FIDELIDADE${Date.now()}`
VoucherCode(t) == <<"FIDELIDADE", t>>

\* expiryDate.setDate(expiryDate.getDate() + validityDays)
ExpiryDate(t, validityDays) == t + validityDays * TicksPerDay

\* insert into vouchers; code is unique, so a duplicate code throws
CreateVoucherThrows(vs, row) == \E v \in vs : v.code = row.code

StorageCreateVoucher(vs, row) == vs \cup {row}

\* checkAndCreateVoucher: every error is caught and logged
CheckAndCreateVoucher(vs, cfgs, clientId, completedServices, t) ==
  IF ActiveVoucherConfigs(cfgs) = {} THEN vs
  ELSE LET config == CHOOSE c \in ActiveVoucherConfigs(cfgs) : TRUE
           row == [id |-> Cardinality(vs) + 1,
                   userId |-> clientId,
                   configId |-> config.id,
                   code |-> VoucherCode(t),
                   status |-> "ACTIVE",
                   expiryDate |-> ExpiryDate(t, config.validityDays),
                   usedAt |-> None,
                   usedAppointmentId |-> None]
       IN IF QualifiesForVoucher(completedServices, config)
               /\ ~CreateVoucherThrows(vs, row)
            THEN StorageCreateVoucher(vs, row)
            ELSE vs

(* --------------------------- updateAppointment ------------------------ *)

\* checkUpdatePermissions without the client's status condition
CheckUpdatePermissionsAnyStatus(user, appointment) ==
  CASE Role(user) \in {"SUPER_ADMIN", "ADMIN"} -> TRUE
    [] Role(user) = "BARBEIRO" ->
         /\ HasBarbeiroByUserId(user)
         /\ GetBarbeiroByUserId(user).id = appointment.barberId
    [] Role(user) = "CLIENTE" -> appointment.clientId = user
    [] OTHER -> FALSE

CheckUpdatePermissions(user, appointment) ==
  CASE Role(user) \in {"SUPER_ADMIN", "ADMIN"} -> TRUE
    [] Role(user) = "BARBEIRO" ->
         /\ HasBarbeiroByUserId(user)
         /\ GetBarbeiroByUserId(user).id = appointment.barberId
    [] Role(user) = "CLIENTE" ->
         appointment.clientId = user /\ appointment.status # "COMPLETED"
    [] OTHER -> FALSE

\* the ledger condition without the check of the existing status
MarksCompletedAnyStatus(updates, existing) == updates.status = "COMPLETED"

\* updates.status === 'COMPLETED' && existingAppointment.status !== 'COMPLETED'
MarksCompleted(updates, existing) ==
  updates.status = "COMPLETED" /\ existing.status # "COMPLETED"

\* the ledger's amount taken from the price the request carries
AppointmentPriceOfRequest(existing, updates) ==
  ParseFloat(IF updates.price \in {Undefined, ""} THEN "0" ELSE updates.price)

\* parseFloat(existingAppointment.price || '0'): the price stored before the
\* call; the price the request carries plays no part
AppointmentPrice(existing, updates) ==
  ParseFloat(IF existing.price \in {Null, ""} THEN "0" ELSE existing.price)

\* { ...updates, price: updates.price ? String(updates.price) : undefined }:
\* the empty string is falsy, so it becomes undefined like an absent price
UpdateData(updates) ==
  [updates EXCEPT !.price = IF @ \in {Undefined, ""} THEN Undefined ELSE @]

\* the decimal column rejects a text that is no number: the update throws
UpdateThrows(updateData) ==
  updateData.price # Undefined /\ ~ValidDecimal(updateData.price)

UpdateResponse(appts, user, id, updates) ==
  IF ~HasAppointment(appts, id) THEN "APPOINTMENT_NOT_FOUND"
  ELSE IF ~CheckUpdatePermissions(user, GetAppointment(appts, id))
    THEN "UPDATE_PERMISSION_DENIED"
  ELSE IF UpdateThrows(UpdateData(updates)) THEN "INTERNAL_ERROR"
  ELSE "OK"

\* UpdateAppointment with the audit sink in condition sk
UpdateAppointmentWithSink(user, id, updates, sk) ==
  LET res == UpdateResponse(appointments, user, id, updates) IN
  /\ last' = [op |-> "update",
              res |-> LoggedResponse(res, "OK", sk)]
  /\ IF res \in {"APPOINTMENT_NOT_FOUND", "UPDATE_PERMISSION_DENIED"}
       THEN UNCHANGED <<appointments, clientServiceCounts, vouchers, completions>>
       ELSE
         LET existing == GetAppointment(appointments, id) IN
         /\ IF MarksCompleted(updates, existing)
              THEN \E sc \in ReadServiceCount(clientServiceCounts, existing.clientId) :
                     LET newCompletedServices == sc.completedServices + 1
                         newTotalSpent ==
                           sc.totalSpent + AppointmentPrice(existing, updates)
                     IN /\ newCompletedServices <= MaxCount
                        /\ clientServiceCounts' =
                             UpdateClientServiceCount(clientServiceCounts,
                               existing.clientId, newCompletedServices, newTotalSpent)
                        /\ vouchers' =
                             CheckAndCreateVoucher(vouchers, voucherConfigs,
                               existing.clientId, newCompletedServices, now)
              ELSE UNCHANGED <<clientServiceCounts, vouchers>>
         /\ appointments' =
              IF res = "OK"
                THEN StorageUpdateAppointment(appointments, id, UpdateData(updates))
                ELSE appointments
         /\ completions' =
              IF /\ existing.status # "COMPLETED"
                 /\ GetAppointment(appointments', id).status = "COMPLETED"
                THEN [completions EXCEPT ![existing.clientId] = @ + 1]
                ELSE completions
  /\ UNCHANGED <<nextApptId, voucherConfigs, now, inflight>>
  /\ UNCHANGED <<businessConfig, slotsResponse, auditSink>>

UpdateAppointment(user, id, updates) == UpdateAppointmentWithSink(user, id, updates, auditSink)

(* --------------------------- deleteAppointment ------------------------ *)

\* requireRole: the route's guard, before the handler runs
RequireRole(allowedRoles, user) == Role(user) \in allowedRoles

RequireAdmin(user) == RequireRole({"SUPER_ADMIN", "ADMIN"}, user)

\* vouchers.used_appointment_id references appointments.id with no ON DELETE
\* rule: deleting a referenced appointment violates the constraint and throws
DeleteThrows(vs, id) == \E v \in vs : v.usedAppointmentId = Some(id)

StorageDeleteAppointment(appts, id) == { a \in appts : a.id # id }

DeleteResponse(appts, vs, user, id) ==
  IF ~RequireAdmin(user) THEN "INSUFFICIENT_PERMISSIONS"
  ELSE IF ~HasAppointment(appts, id) THEN "APPOINTMENT_NOT_FOUND"
  ELSE IF Role(user) \notin {"ADMIN", "SUPER_ADMIN"} THEN "DELETE_PERMISSION_DENIED"
  ELSE IF DeleteThrows(vs, id) THEN "INTERNAL_ERROR"
  ELSE "NO_CONTENT"

\* DeleteAppointment with the audit sink in condition sk
DeleteAppointmentWithSink(user, id, sk) ==
  LET res == DeleteResponse(appointments, vouchers, user, id) IN
  /\ last' = [op |-> "delete",
              res |-> LoggedResponse(res, "NO_CONTENT", sk)]
  /\ appointments' =
       IF res = "NO_CONTENT" THEN StorageDeleteAppointment(appointments, id)
       ELSE appointments
  /\ UNCHANGED <<nextApptId, clientServiceCounts, voucherConfigs, vouchers, now,
                 completions, inflight>>
  /\ UNCHANGED <<businessConfig, slotsResponse, auditSink>>

DeleteAppointment(user, id) == DeleteAppointmentWithSink(user, id, auditSink)

(* ------------------------- scheduled clean-up ------------------------- *)

\* the query with lte in place of lt: today's appointments are returned too
GetOldPendingAppointmentsIncludingToday(appts, today) ==
  { a \in appts : a.status = "SCHEDULED" /\ a.appointmentDate <= today }

\* status = 'SCHEDULED' and appointment_date < today
GetOldPendingAppointments(appts, today) ==
  { a \in appts : a.status = "SCHEDULED" /\ a.appointmentDate < today }

\* (appointment.notes || '') + ' [Auto-cancelado por prazo expirado]'
CancelledNotes(notes) == Append(notes, AutoCancelNote)

AutoNotes(notes) == Cardinality({ i \in DOMAIN notes : notes[i] = AutoCancelNote })

\* the rows after the task has updated every appointment the query returned
CleanupResult(appts, today) ==
  { IF a \in GetOldPendingAppointments(appts, today)
      THEN [a EXCEPT !.status = "CANCELLED", !.notes = CancelledNotes(a.notes)]
      ELSE a : a \in appts }

CleanupTask ==
  /\ \A a \in GetOldPendingAppointments(appointments, DateOf(now)) :
       AutoNotes(a.notes) < MaxAutoNotes
  /\ appointments' = CleanupResult(appointments, DateOf(now))
  /\ last' = [op |-> "cleanup", res |-> "none"]
  /\ UNCHANGED <<nextApptId, clientServiceCounts, voucherConfigs, vouchers, now,
                 completions, inflight>>
  /\ UNCHANGED <<businessConfig, slotsResponse, auditSink>>

(* ---------------------------- configureVouchers ----------------------- *)

\* updateVoucherConfig(existingConfig.id, { isActive: false })
DeactivateConfig(cfgs, id) ==
  { IF c.id = id THEN [c EXCEPT !.isActive = FALSE] ELSE c : c \in cfgs }

ConfigureResult(cfgs, body) ==
  LET deactivated ==
        IF ActiveVoucherConfigs(cfgs) = {} THEN cfgs
        ELSE DeactivateConfig(cfgs, (CHOOSE c \in ActiveVoucherConfigs(cfgs) : TRUE).id)
  IN deactivated \cup
       { [id |-> Cardinality(cfgs) + 1,
          servicesRequired |-> body.servicesRequired,
          discountPercentage |-> body.discountPercentage,
          validityDays |-> body.validityDays,
          isActive |-> TRUE] }

ConfigureVouchers(user, body) ==
  /\ IF ~RequireAdmin(user)
       THEN /\ last' = [op |-> "configure", res |-> "INSUFFICIENT_PERMISSIONS"]
            /\ UNCHANGED voucherConfigs
       ELSE /\ last' = [op |-> "configure", res |-> "CREATED"]
            /\ voucherConfigs' = ConfigureResult(voucherConfigs, body)
  /\ UNCHANGED <<appointments, nextApptId, clientServiceCounts, vouchers, now,
                 completions, inflight>>
  /\ UNCHANGED <<businessConfig, slotsResponse, auditSink>>

(* ------------------------------ vouchers ------------------------------ *)

HasVoucherByCode(vs, code) == \E v \in vs : v.code = code

GetVoucherByCode(vs, code) == CHOOSE v \in vs : v.code = code

StorageUpdateVoucher(vs, id, status, usedAt, usedAppointmentId) ==
  { IF v.id = id
      THEN [v EXCEPT !.status = status, !.usedAt = usedAt,
                     !.usedAppointmentId = usedAppointmentId]
      ELSE v : v \in vs }

\* the expiry comparison with its sides exchanged
IsExpiredReversed(voucher, t) == t < voucher.expiryDate

\* new Date(voucher.expiryDate) < new Date()
IsExpired(voucher, t) == voucher.expiryDate < t

\* redeemVoucher without the check of the voucher's status
RedeemResponseIgnoringStatus(vs, appts, user, code, appointmentId, t) ==
  IF ~HasVoucherByCode(vs, code) THEN "VOUCHER_NOT_FOUND"
  ELSE LET voucher == GetVoucherByCode(vs, code) IN
    IF voucher.userId # user THEN "VOUCHER_NOT_OWNED"
    ELSE IF IsExpired(voucher, t) THEN "VOUCHER_EXPIRED"
    ELSE IF appointmentId # None /\ ~HasAppointment(appts, appointmentId[1])
      THEN "APPOINTMENT_NOT_FOUND"
    ELSE IF appointmentId # None
              /\ GetAppointment(appts, appointmentId[1]).clientId # user
      THEN "APPOINTMENT_NOT_OWNED"
    ELSE "OK"

\* redeemVoucher with the status check placed before the ownership check
RedeemResponseStatusFirst(vs, appts, user, code, appointmentId, t) ==
  IF ~HasVoucherByCode(vs, code) THEN "VOUCHER_NOT_FOUND"
  ELSE LET voucher == GetVoucherByCode(vs, code) IN
    IF voucher.status # "ACTIVE" THEN "VOUCHER_INACTIVE"
    ELSE IF voucher.userId # user THEN "VOUCHER_NOT_OWNED"
    ELSE IF IsExpired(voucher, t) THEN "VOUCHER_EXPIRED"
    ELSE IF appointmentId # None /\ ~HasAppointment(appts, appointmentId[1])
      THEN "APPOINTMENT_NOT_FOUND"
    ELSE IF appointmentId # None
              /\ GetAppointment(appts, appointmentId[1]).clientId # user
      THEN "APPOINTMENT_NOT_OWNED"
    ELSE "OK"

RedeemResponse(vs, appts, user, code, appointmentId, t) ==
  IF ~HasVoucherByCode(vs, code) THEN "VOUCHER_NOT_FOUND"
  ELSE LET voucher == GetVoucherByCode(vs, code) IN
    IF voucher.userId # user THEN "VOUCHER_NOT_OWNED"
    ELSE IF voucher.status # "ACTIVE" THEN "VOUCHER_INACTIVE"
    ELSE IF IsExpired(voucher, t) THEN "VOUCHER_EXPIRED"
    ELSE IF appointmentId # None /\ ~HasAppointment(appts, appointmentId[1])
      THEN "APPOINTMENT_NOT_FOUND"
    ELSE IF appointmentId # None
              /\ GetAppointment(appts, appointmentId[1]).clientId # user
      THEN "APPOINTMENT_NOT_OWNED"
    ELSE "OK"

\* RedeemVoucher with the audit sink in condition sk
RedeemVoucherWithSink(user, code, appointmentId, sk) ==
  LET res == RedeemResponse(vouchers, appointments, user, code, appointmentId, now) IN
  /\ last' = [op |-> "redeem",
              res |-> LoggedResponse(res, "OK", sk)]
  /\ vouchers' =
       CASE res = "VOUCHER_EXPIRED" ->
              LET v == GetVoucherByCode(vouchers, code)
              IN StorageUpdateVoucher(vouchers, v.id, "EXPIRED", v.usedAt,
                                      v.usedAppointmentId)
         [] res = "OK" ->
              StorageUpdateVoucher(vouchers, GetVoucherByCode(vouchers, code).id,
                                   "USED", Some(now), appointmentId)
         [] OTHER -> vouchers
  /\ UNCHANGED <<appointments, nextApptId, clientServiceCounts, voucherConfigs, now,
                 completions, inflight>>
  /\ UNCHANGED <<businessConfig, slotsResponse, auditSink>>

RedeemVoucher(user, code, appointmentId) == RedeemVoucherWithSink(user, code, appointmentId, auditSink)

\* getUserVouchers marks the caller's expired ACTIVE vouchers EXPIRED
ExpireListed(vs, user, t) ==
  { IF v.userId = user /\ v.status = "ACTIVE" /\ IsExpired(v, t)
      THEN [v EXCEPT !.status = "EXPIRED"]
      ELSE v : v \in vs }

GetUserVouchers(user) ==
  /\ vouchers' = ExpireListed(vouchers, user, now)
  /\ last' = [op |-> "list", res |-> "OK"]
  /\ UNCHANGED <<appointments, nextApptId, clientServiceCounts, voucherConfigs, now,
                 completions, inflight>>
  /\ UNCHANGED <<businessConfig, slotsResponse, auditSink>>

\* codes a redeem request may carry: every issued code and one never issued
RedeemCodes == { v.code : v \in vouchers } \cup { <<"FIDELIDADE", -1>> }

(* ------------------------------ clock --------------------------------- *)

Tick ==
  /\ now' = now + 1
  /\ last' = [op |-> "tick", res |-> "none"]
  /\ UNCHANGED <<appointments, nextApptId, clientServiceCounts, voucherConfigs,
                 vouchers, completions, inflight>>
  /\ UNCHANGED <<businessConfig, slotsResponse, auditSink>>

(* ------------------- appointment lifecycle: Spec ---------------------- *)

\* requests of the lifecycle specification: bookings by c1 with every barber
\* id, date and notes; status changes by every user
CreateBodies ==
  [ clientId : {"c2"},
    barberId : BarberIds,
    appointmentDate : Dates,
    appointmentTime : Times,
    status : {Undefined, "COMPLETED"},
    notes : {<<>>, <<UserNote>>},
    price : {Undefined} ]

UpdateBodies ==
  [ status : Statuses \cup {Undefined}, notes : {<<Undefined>>}, price : {Undefined} ]
    \cup { [status |-> Undefined, notes |-> <<UserNote>>, price |-> Undefined] }

Next ==
  \/ /\ nextApptId <= MaxAppts
     /\ \E body \in CreateBodies : CreateAppointment("c1", body)
  \/ \E user \in Users, id \in 1 .. MaxAppts, updates \in UpdateBodies :
       UpdateAppointment(user, id, updates)
  \/ \E user \in Users, id \in 1 .. MaxAppts : DeleteAppointment(user, id)
  \/ CleanupTask
  \/ now < MaxNow /\ Tick

Spec == Init /\ [][Next]_vars

(* ---------------------- loyalty ledger: SpecLoyalty ------------------- *)

\* requests of the loyalty specification: bookings with and without a price,
\* status changes with and without a price, voucher configuration
LoyaltyCreateBodies ==
  [ clientId : {"c2"},
    barberId : {"b1"},
    appointmentDate : {0},
    appointmentTime : Times,
    status : {Undefined},
    notes : {<<>>},
    price : {Undefined, "10.00"} ]

LoyaltyUpdateBodies ==
  { [status |-> "SCHEDULED", notes |-> <<Undefined>>, price |-> Undefined] }
    \cup [ status : {"COMPLETED"}, notes : {<<Undefined>>}, price : PriceInputs ]

\* callers of the loyalty specification: both clients and an administrator
LoyaltyUsers == {"c1", "c2", "adm"}

ConfigBodies ==
  [ servicesRequired : {1, 2}, discountPercentage : {10}, validityDays : {1} ]

NextLoyalty ==
  \/ /\ nextApptId <= MaxLoyaltyAppts
     /\ \E user \in {"c1", "c2"}, body \in LoyaltyCreateBodies :
          CreateAppointment(user, body)
  \/ \E user \in LoyaltyUsers, id \in 1 .. MaxLoyaltyAppts,
        updates \in LoyaltyUpdateBodies :
       UpdateAppointment(user, id, updates)
  \/ /\ Cardinality(voucherConfigs) < MaxConfigs
     /\ \E user \in {"c1", "adm"}, body \in ConfigBodies :
          ConfigureVouchers(user, body)
  \/ now < MaxLoyaltyNow /\ Tick

SpecLoyalty == Init /\ [][NextLoyalty]_vars

(* ----------------------- redemption: SpecVoucher ---------------------- *)

\* requests of the voucher specification: one configuration, bookings that
\* every user tries to complete, redemptions, listings and deletions
VoucherCreateBodies ==
  [ clientId : {"c2"},
    barberId : {"b1"},
    appointmentDate : {0},
    appointmentTime : Times,
    status : {Undefined},
    notes : {<<>>},
    price : {Undefined} ]

VoucherUpdateBodies ==
  { [status |-> "COMPLETED", notes |-> <<Undefined>>, price |-> Undefined] }

VoucherConfigBodies ==
  [ servicesRequired : {1}, discountPercentage : {10}, validityDays : {1} ]

NextVoucher ==
  \/ /\ nextApptId <= MaxAppts
     /\ \E user \in {"c1", "c2"}, body \in VoucherCreateBodies :
          CreateAppointment(user, body)
  \/ \E user \in Users, id \in 1 .. MaxAppts, updates \in VoucherUpdateBodies :
       UpdateAppointment(user, id, updates)
  \/ \E user \in {"c1", "ub1", "adm", "root"}, id \in 1 .. MaxAppts :
       DeleteAppointment(user, id)
  \/ /\ Cardinality(voucherConfigs) < MaxConfigs
     /\ \E body \in VoucherConfigBodies : ConfigureVouchers("adm", body)
  \/ \E user \in {"c1", "c2"}, code \in RedeemCodes,
        appointmentId \in {None} \cup { Some(i) : i \in 1 .. MaxAppts } :
       RedeemVoucher(user, code, appointmentId)
  \/ \E user \in {"c1", "c2"} : GetUserVouchers(user)
  \/ now < MaxVoucherNow /\ Tick

SpecVoucher == Init /\ [][NextVoucher]_vars

(* --------------------- properties of the lifecycle -------------------- *)

\* C1: for every (staff member, date, time) triple at most one appointment
\* with status SCHEDULED, CONFIRMED or IN_PROGRESS exists.
C1_OneActiveAppointmentPerSlot ==
  \A a \in appointments, b \in appointments :
    ( /\ a.id # b.id
      /\ a.barberId = b.barberId
      /\ a.appointmentDate = b.appointmentDate
      /\ a.appointmentTime = b.appointmentTime
      /\ a.status \in NonTerminal ) => b.status \notin NonTerminal

\* C2: a booking for a slot that already holds a non-terminal appointment of
\* the same staff member is refused with a slot conflict and adds nothing, so
\* a booking that succeeded was for a slot no other non-terminal appointment
\* held.
C2_CreateOnOccupiedSlotRefused ==
  [][\A user \in Users, body \in CreateBodies :
       ( /\ last'.op = "create"
         /\ CreateAppointment(user, body)
         /\ \E a \in appointments :
              /\ a.barberId = body.barberId
              /\ a.appointmentDate = body.appointmentDate
              /\ a.appointmentTime = body.appointmentTime
              /\ a.status \in NonTerminal )
       => /\ last'.res = "SLOT_CONFLICT"
          /\ appointments' = appointments]_vars

\* C3: a booking that names no staff member is answered BARBEIRO_NOT_FOUND,
\* one that names an unavailable staff member BARBEIRO_UNAVAILABLE, and
\* neither adds an appointment; a booking that succeeds adds exactly one
\* appointment, whose client is the caller and whose status is SCHEDULED,
\* whatever client id and status the request carries.
C3_CreateOutcome ==
  [][\A user \in Users, body \in CreateBodies :
       (last'.op = "create" /\ CreateAppointment(user, body)) =>
         /\ (\A b \in Barbeiros : b.id # body.barberId) =>
              (last'.res = "BARBEIRO_NOT_FOUND" /\ appointments' = appointments)
         /\ (\E b \in Barbeiros : b.id = body.barberId /\ ~b.isAvailable) =>
              (last'.res = "BARBEIRO_UNAVAILABLE" /\ appointments' = appointments)
         /\ last'.res = "CREATED" =>
              \E a \in appointments' :
                /\ a \notin appointments
                /\ appointments' = appointments \cup {a}
                /\ a.clientId = user
                /\ a.clientId # body.clientId
                /\ a.status = "SCHEDULED"]_vars

\* a refused booking (unavailable staff member) after one that succeeded for
\* the caller c1
C3_Witness ==
  /\ last = [op |-> "create", res |-> "BARBEIRO_UNAVAILABLE"]
  /\ \E a \in appointments : a.clientId = "c1" /\ a.status = "SCHEDULED"

\* C4: once an appointment is COMPLETED or CANCELLED, no status update
\* changes its status.
C4_TerminalStatusIsFinal ==
  [][\A user \in Users, id \in 1 .. MaxAppts, updates \in UpdateBodies :
       (last'.op = "update" /\ UpdateAppointment(user, id, updates)) =>
         \A a \in appointments :
           a.status \in {"COMPLETED", "CANCELLED"} =>
             \A b \in appointments' : b.id = a.id => b.status = a.status]_vars

\* C9: the clean-up task cancels every SCHEDULED appointment dated strictly
\* before the current date, appending the auto-cancellation annotation to its
\* notes, leaves every other appointment as it was, and leaves nothing that a
\* second run at the same time would change.
C9_CleanupCancelsStale ==
  [][CleanupTask =>
       /\ \A a \in appointments :
            IF a.status = "SCHEDULED" /\ a.appointmentDate < DateOf(now)
              THEN [a EXCEPT !.status = "CANCELLED",
                             !.notes = a.notes \o <<AutoCancelNote>>]
                     \in appointments'
              ELSE a \in appointments'
       /\ { b.id : b \in appointments' } = { a.id : a \in appointments }
       /\ Cardinality(appointments') = Cardinality(appointments)
       /\ \A b \in appointments' :
            ~(b.status = "SCHEDULED" /\ b.appointmentDate < DateOf(now'))
       /\ CleanupResult(appointments', DateOf(now')) = appointments']_vars

\* the task has run on the second day: the booking dated the first day is
\* cancelled and annotated, the one dated the second day is still SCHEDULED
C9_Witness ==
  /\ last.op = "cleanup"
  /\ DateOf(now) = 1
  /\ \E a \in appointments :
       /\ a.appointmentDate = 0
       /\ a.status = "CANCELLED"
       /\ AutoNotes(a.notes) = 1
  /\ \E b \in appointments : b.appointmentDate = 1 /\ b.status = "SCHEDULED"

(* ------------------- properties of the loyalty ledger ----------------- *)

\* C5: a status update to COMPLETED on an appointment that is already
\* COMPLETED leaves the client's completed-service count, total spend and the
\* vouchers as they were.
C5_RepeatedCompletionChangesNothing ==
  [][\A user \in LoyaltyUsers, id \in 1 .. MaxLoyaltyAppts,
        updates \in LoyaltyUpdateBodies :
       ( /\ last'.op = "update"
         /\ updates.status = "COMPLETED"
         /\ \E a \in appointments : a.id = id /\ a.status = "COMPLETED"
         /\ UpdateAppointment(user, id, updates) )
       => /\ clientServiceCounts' = clientServiceCounts
          /\ vouchers' = vouchers]_vars

\* an update to COMPLETED with a price that is no decimal (the only request
\* answered INTERNAL_ERROR here) has just reached an appointment that was
\* already COMPLETED: its client's ledger row still shows the one completion
\* and the client holds the one voucher
C5_Witness ==
  /\ last = [op |-> "update", res |-> "INTERNAL_ERROR"]
  /\ appointments # {}
  /\ \A a \in appointments :
       /\ a.status = "COMPLETED"
       /\ completions[a.clientId] = 1
       /\ \E r \in clientServiceCounts :
            r.userId = a.clientId /\ r.completedServices = 1
       /\ Cardinality({ v \in vouchers : v.userId = a.clientId }) = 1

\* C6: a client's completed-service count equals the number of status updates
\* that moved one of that client's appointments from a status other than
\* COMPLETED into COMPLETED; no other operation changes the count.
C6_CountEqualsCompletions ==
  \A u \in Users :
    IF \E r \in clientServiceCounts : r.userId = u
      THEN \A r \in clientServiceCounts :
             r.userId = u => r.completedServices = completions[u]
      ELSE completions[u] = 0

\* C10: a status update that moves an appointment into COMPLETED raises its
\* client's completed-service count by exactly 1 (from 0 when the client has
\* no ledger row) and issues one voucher to that client exactly when a
\* configuration is active and the new count is a multiple of its
\* servicesRequired.
C10_CompletionCountsAndIssues ==
  [][\A user \in LoyaltyUsers, id \in 1 .. MaxLoyaltyAppts,
        updates \in LoyaltyUpdateBodies :
       ( /\ last'.op = "update"
         /\ \E a \in appointments : a.id = id /\ a.status # "COMPLETED"
         /\ \E b \in appointments' : b.id = id /\ b.status = "COMPLETED"
         /\ UpdateAppointment(user, id, updates) )
       => LET client == (CHOOSE a \in appointments : a.id = id).clientId
              before ==
                IF \E r \in clientServiceCounts : r.userId = client
                  THEN (CHOOSE r \in clientServiceCounts :
                          r.userId = client).completedServices
                  ELSE 0
          IN /\ \E r \in clientServiceCounts' :
                  r.userId = client /\ r.completedServices = before + 1
             /\ (\E v \in vouchers' : v \notin vouchers /\ v.userId = client)
                  <=> \E c \in voucherConfigs :
                        /\ c.isActive
                        /\ c.servicesRequired > 0
                        /\ (before + 1) % c.servicesRequired = 0
             /\ Cardinality(vouchers') <= Cardinality(vouchers) + 1]_vars

(* --------------- properties of permissions and deletion --------------- *)

\* C7: a status update is applied only when the caller is ADMIN or
\* SUPER_ADMIN, the staff member the appointment is assigned to, or the
\* appointment's client while it is not COMPLETED; from any other caller it
\* is answered UPDATE_PERMISSION_DENIED and the appointment, the ledger and
\* the vouchers stay as they were.
C7_UpdateNeedsPermission ==
  [][\A user \in Users, id \in 1 .. MaxAppts, updates \in VoucherUpdateBodies :
       ( /\ last'.op = "update"
         /\ \E a \in appointments : a.id = id
         /\ UpdateAppointment(user, id, updates) )
       => LET a == CHOOSE x \in appointments : x.id = id
              permitted ==
                \/ Role(user) \in {"ADMIN", "SUPER_ADMIN"}
                \/ \E b \in Barbeiros : b.userId = user /\ b.id = a.barberId
                \/ a.clientId = user /\ a.status # "COMPLETED"
          IN /\ ~permitted =>
                  /\ last'.res = "UPDATE_PERMISSION_DENIED"
                  /\ appointments' = appointments
                  /\ clientServiceCounts' = clientServiceCounts
                  /\ vouchers' = vouchers
             /\ last'.res = "OK" => permitted]_vars

\* an update has just been refused while a COMPLETED appointment, its
\* client's ledger row and a voucher exist
C7_Witness ==
  /\ last = [op |-> "update", res |-> "UPDATE_PERMISSION_DENIED"]
  /\ \E a \in appointments :
       /\ a.status = "COMPLETED"
       /\ \E r \in clientServiceCounts :
            r.userId = a.clientId /\ r.completedServices = 1
  /\ vouchers # {}

\* C8: a deletion by a caller who is neither ADMIN nor SUPER_ADMIN is refused
\* and removes nothing; by an administrator, an id that names no appointment
\* is answered APPOINTMENT_NOT_FOUND, and an id that names one (a redeemed
\* voucher may refer to it) succeeds and removes exactly that appointment.
C8_DeleteOutcome ==
  [][\A user \in Users, id \in 1 .. MaxAppts :
       (last'.op = "delete" /\ DeleteAppointment(user, id)) =>
         IF Role(user) \notin {"ADMIN", "SUPER_ADMIN"}
           THEN /\ last'.res = "INSUFFICIENT_PERMISSIONS"
                /\ appointments' = appointments
         ELSE IF ~\E a \in appointments : a.id = id
           THEN /\ last'.res = "APPOINTMENT_NOT_FOUND"
                /\ appointments' = appointments
         ELSE /\ last'.res = "NO_CONTENT"
              /\ appointments' = { a \in appointments : a.id # id }]_vars

(* ------------------- voucher issuance: SpecIssue ---------------------- *)

\* requests of the issuance specification: one configuration that is never
\* replaced, bookings by both clients, and status changes by an administrator
\* once the configuration exists
IssueConfigBodies ==
  [ servicesRequired : {1, 2}, discountPercentage : {10}, validityDays : {1, 2} ]

IssueUpdateBodies ==
  [ status : {"SCHEDULED", "COMPLETED"}, notes : {<<Undefined>>}, price : {Undefined} ]

NextIssue ==
  \/ /\ voucherConfigs = {}
     /\ \E body \in IssueConfigBodies : ConfigureVouchers("adm", body)
  \/ /\ nextApptId <= MaxAppts
     /\ \E user \in {"c1", "c2"}, body \in VoucherCreateBodies :
          CreateAppointment(user, body)
  \/ /\ voucherConfigs # {}
     /\ \E id \in 1 .. MaxAppts, updates \in IssueUpdateBodies :
          UpdateAppointment("adm", id, updates)
  \/ now < MaxNow /\ Tick

SpecIssue == Init /\ [][NextIssue]_vars

\* C11: with one active configuration (servicesRequired r, validityDays d)
\* that is never replaced, a client who has completed n services owns exactly
\* n div r vouchers, each ACTIVE, referencing that configuration, and expiring
\* d days after the clock value of the completion that issued it.
C11_VouchersPerCompletions ==
  \A c \in voucherConfigs :
    c.isActive =>
      \A u \in {"c1", "c2"} :
        LET owned == { v \in vouchers : v.userId = u }
        IN /\ Cardinality(owned) = completions[u] \div c.servicesRequired
           /\ \A v \in owned :
                /\ v.status = "ACTIVE"
                /\ v.configId = c.id
                /\ v.expiryDate = v.code[2] + c.validityDays * TicksPerDay

\* C12: a status update into COMPLETED is all-or-nothing: whenever an update
\* raises a client's count, the appointment ends COMPLETED; whenever the new
\* count is a multiple of the active configuration's servicesRequired, a
\* voucher is stored for that crossing; and never more than one voucher is
\* stored for one crossing.
C12_CompletionIsAllOrNothing ==
  [][(last'.op = "update" /\ clientServiceCounts' # clientServiceCounts) =>
       /\ \E a \in appointments, b \in appointments' :
            /\ a.id = b.id
            /\ a.status # "COMPLETED"
            /\ b.status = "COMPLETED"
       /\ \A r \in clientServiceCounts' \ clientServiceCounts :
            (\E c \in voucherConfigs :
               /\ c.isActive
               /\ c.servicesRequired > 0
               /\ r.completedServices % c.servicesRequired = 0)
              => \E v \in vouchers' \ vouchers : v.userId = r.userId
       /\ Cardinality(vouchers' \ vouchers) <= 1]_vars

\* C13: every threshold crossing, also one at the clock value of an earlier
\* crossing, stores a new voucher whose code differs from the code of every
\* voucher stored before.
C13_EveryCrossingStoresFreshCode ==
  [][\A id \in 1 .. MaxAppts, updates \in IssueUpdateBodies :
       ( /\ last'.op = "update"
         /\ updates.status = "COMPLETED"
         /\ \E a \in appointments : a.id = id /\ a.status # "COMPLETED"
         /\ UpdateAppointment("adm", id, updates)
         /\ LET client == (CHOOSE a \in appointments : a.id = id).clientId
            IN \E r \in clientServiceCounts', c \in voucherConfigs :
                 /\ r.userId = client
                 /\ c.isActive
                 /\ r.completedServices % c.servicesRequired = 0 )
       => \E v \in vouchers' :
            /\ v \notin vouchers
            /\ \A w \in vouchers : w.code # v.code]_vars

(* ---------------------- properties of redemption ---------------------- *)

\* C14: a redeem by the owner of an ACTIVE voucher that has not expired (with
\* no appointment, or with one of the owner's appointments) is answered OK and
\* sets the status USED, usedAt to the clock value and the appointment
\* reference; a later redeem of the code of a USED voucher never succeeds,
\* is answered VOUCHER_INACTIVE to the owner, and leaves the voucher as the
\* first redeem set it.
C14_RedeemSucceedsOnce ==
  [][\A user \in {"c1", "c2"}, code \in RedeemCodes,
        appointmentId \in {None} \cup { Some(i) : i \in 1 .. MaxAppts } :
       (last'.op = "redeem" /\ RedeemVoucher(user, code, appointmentId)) =>
         \A v \in vouchers :
           v.code = code =>
             /\ ( /\ v.userId = user
                  /\ v.status = "ACTIVE"
                  /\ ~(v.expiryDate < now)
                  /\ \/ appointmentId = None
                     \/ \E a \in appointments :
                          a.id = appointmentId[1] /\ a.clientId = user )
                => /\ last'.res = "OK"
                   /\ vouchers' =
                        (vouchers \ {v}) \cup
                          { [v EXCEPT !.status = "USED",
                                      !.usedAt = <<now>>,
                                      !.usedAppointmentId = appointmentId] }
             /\ v.status = "USED"
                => /\ last'.res # "OK"
                   /\ v.userId = user => last'.res = "VOUCHER_INACTIVE"
                   /\ vouchers' = vouchers]_vars

\* a redeem by the owner has just been refused as VOUCHER_INACTIVE: the only
\* voucher is USED since an earlier clock value and still carries the
\* appointment it was redeemed for
C14_Witness ==
  /\ last = [op |-> "redeem", res |-> "VOUCHER_INACTIVE"]
  /\ Cardinality(vouchers) = 1
  /\ \A v \in vouchers :
       /\ v.status = "USED"
       /\ v.usedAt # None
       /\ v.usedAt[1] < now
       /\ v.usedAppointmentId # None

\* C16: a redeem by the owner of an ACTIVE voucher whose expiry is in the
\* past is answered VOUCHER_EXPIRED and leaves the voucher EXPIRED with no
\* usedAt and no appointment reference; a further redeem of the code by the
\* owner is answered VOUCHER_INACTIVE and changes nothing.
C16_ExpiredVoucherIsRefused ==
  [][\A user \in {"c1", "c2"}, code \in RedeemCodes,
        appointmentId \in {None} \cup { Some(i) : i \in 1 .. MaxAppts } :
       (last'.op = "redeem" /\ RedeemVoucher(user, code, appointmentId)) =>
         \A v \in vouchers :
           (v.code = code /\ v.userId = user) =>
             /\ (v.status = "ACTIVE" /\ v.expiryDate < now)
                => /\ last'.res = "VOUCHER_EXPIRED"
                   /\ \E w \in vouchers' :
                        /\ w.id = v.id
                        /\ w.status = "EXPIRED"
                        /\ w.usedAt = None
                        /\ w.usedAppointmentId = None
                   /\ \A w \in vouchers : w.id # v.id => w \in vouchers'
             /\ v.status = "EXPIRED"
                => /\ last'.res = "VOUCHER_INACTIVE"
                   /\ vouchers' = vouchers]_vars

\* a redeem has just been refused as VOUCHER_EXPIRED and the voucher is
\* EXPIRED, unused and past its expiry
C16_Witness ==
  /\ last = [op |-> "redeem", res |-> "VOUCHER_EXPIRED"]
  /\ \E v \in vouchers :
       /\ v.status = "EXPIRED"
       /\ v.expiryDate < now
       /\ v.usedAt = None
       /\ v.usedAppointmentId = None

\* C17: redeem answers with the first check that fails, in this order: code
\* unknown, voucher of another client, status not ACTIVE, expiry in the past,
\* appointment missing, appointment of another client; every refusal other
\* than VOUCHER_EXPIRED leaves the vouchers as they were.
C17_RedeemCheckOrder ==
  [][\A user \in {"c1", "c2"}, code \in RedeemCodes,
        appointmentId \in {None} \cup { Some(i) : i \in 1 .. MaxAppts } :
       (last'.op = "redeem" /\ RedeemVoucher(user, code, appointmentId)) =>
         LET known == \E v \in vouchers : v.code = code
             v == CHOOSE x \in vouchers : x.code = code
             missing ==
               appointmentId # None
                 /\ ~\E a \in appointments : a.id = appointmentId[1]
             foreign ==
               appointmentId # None
                 /\ \E a \in appointments :
                      a.id = appointmentId[1] /\ a.clientId # user
             expected ==
               IF ~known THEN "VOUCHER_NOT_FOUND"
               ELSE IF v.userId # user THEN "VOUCHER_NOT_OWNED"
               ELSE IF v.status # "ACTIVE" THEN "VOUCHER_INACTIVE"
               ELSE IF v.expiryDate < now THEN "VOUCHER_EXPIRED"
               ELSE IF missing THEN "APPOINTMENT_NOT_FOUND"
               ELSE IF foreign THEN "APPOINTMENT_NOT_OWNED"
               ELSE "OK"
         IN /\ last'.res = expected
            /\ expected \notin {"OK", "VOUCHER_EXPIRED"} => vouchers' = vouchers]_vars

\* a redeem has just been refused as VOUCHER_NOT_OWNED although every voucher
\* is USED: the ownership check answered before the status check
C17_Witness ==
  /\ last = [op |-> "redeem", res |-> "VOUCHER_NOT_OWNED"]
  /\ vouchers # {}
  /\ \A v \in vouchers : v.status = "USED"

(* ------------- overlapping requests: reads, then writes --------------- *)

\* a request number no pending write of the set carries
FreeReq(writes) ==
  CHOOSE k \in 1 .. MaxInflight + 1 : \A w \in writes : w.req # k

PendingVoucherWrite(op, req, user, voucherId, status, appointmentId) ==
  [op |-> op, req |-> req, user |-> user, voucherId |-> voucherId,
   status |-> status, appointmentId |-> appointmentId]

\* redeemVoucher up to its last read: getVoucherByCode, the checks on the
\* voucher read, getAppointment and the checks on it; a refusal other than
\* VOUCHER_EXPIRED answers at once, the two other outcomes leave an
\* updateVoucher call to be issued
RedeemRead(user, code, appointmentId) ==
  LET res == RedeemResponse(vouchers, appointments, user, code, appointmentId, now) IN
  /\ IF res \in {"OK", "VOUCHER_EXPIRED"}
       THEN /\ inflight' =
                 [inflight EXCEPT !.voucherWrites = @ \cup
                    { PendingVoucherWrite("redeem", FreeReq(@), user,
                        GetVoucherByCode(vouchers, code).id,
                        IF res = "OK" THEN "USED" ELSE "EXPIRED",
                        appointmentId) }]
            /\ last' = [op |-> "redeemRead", res |-> res]
       ELSE /\ inflight' = inflight
            /\ last' = [op |-> "redeem", res |-> res]
  /\ UNCHANGED <<appointments, nextApptId, clientServiceCounts, voucherConfigs,
                 vouchers, now, completions>>
  /\ UNCHANGED <<businessConfig, slotsResponse, auditSink>>

\* the vouchers getUserVouchers has read and found ACTIVE and past expiry
ListedExpired(vs, user, t) ==
  { v \in vs : v.userId = user /\ v.status = "ACTIVE" /\ IsExpired(v, t) }

\* getUserVouchers up to its read: one updateVoucher call is left to be issued
\* for every voucher found expired
ListRead(user) ==
  /\ inflight' =
       [inflight EXCEPT !.voucherWrites = @ \cup
          { PendingVoucherWrite("list", FreeReq(@), user, v.id, "EXPIRED", None) :
              v \in ListedExpired(vouchers, user, now) }]
  /\ last' = [op |-> "listRead", res |-> "OK"]
  /\ UNCHANGED <<appointments, nextApptId, clientServiceCounts, voucherConfigs,
                 vouchers, now, completions>>
  /\ UNCHANGED <<businessConfig, slotsResponse, auditSink>>

\* updateVoucher(voucher.id, {status: 'USED', usedAt: new Date(),
\* usedAppointmentId}) or updateVoucher(voucher.id, {status: 'EXPIRED'}):
\* where id = id, whatever the row holds by now
VoucherWriteResult(vs, w, t) ==
  LET v == CHOOSE x \in vs : x.id = w.voucherId
  IN IF w.status = "USED"
       THEN StorageUpdateVoucher(vs, w.voucherId, "USED", Some(t), w.appointmentId)
       ELSE StorageUpdateVoucher(vs, w.voucherId, "EXPIRED", v.usedAt,
                                 v.usedAppointmentId)

VoucherWrite(w) ==
  /\ w \in inflight.voucherWrites
  /\ vouchers' = VoucherWriteResult(vouchers, w, now)
  /\ inflight' = [inflight EXCEPT !.voucherWrites = @ \ {w}]
  /\ last' = [op |-> w.op,
              res |-> IF w.op = "redeem" /\ w.status = "EXPIRED"
                        THEN "VOUCHER_EXPIRED" ELSE "OK"]
  /\ UNCHANGED <<appointments, nextApptId, clientServiceCounts, voucherConfigs, now,
                 completions>>
  /\ UNCHANGED <<businessConfig, slotsResponse, auditSink>>

\* configureVouchers up to its read, getActiveVoucherConfig: the deactivation
\* of the configuration read and the insert are left to be issued
ConfigureRead(user, body) ==
  /\ IF ~RequireAdmin(user)
       THEN /\ last' = [op |-> "configure", res |-> "INSUFFICIENT_PERMISSIONS"]
            /\ inflight' = inflight
       ELSE /\ last' = [op |-> "configureRead", res |-> "OK"]
            /\ inflight' =
                 [inflight EXCEPT !.configWrites = @ \cup
                    { [req |-> FreeReq(@), user |-> user, body |-> body,
                       existing |-> { c.id : c \in ActiveVoucherConfigs(voucherConfigs) }] }]
  /\ UNCHANGED <<appointments, nextApptId, clientServiceCounts, voucherConfigs,
                 vouchers, now, completions>>
  /\ UNCHANGED <<businessConfig, slotsResponse, auditSink>>

\* updateVoucherConfig(existingConfig.id, {isActive: false}) for the
\* configuration read, then createVoucherConfig({..., isActive: true})
ConfigureWriteResult(cfgs, w) ==
  { IF c.id \in w.existing THEN [c EXCEPT !.isActive = FALSE] ELSE c : c \in cfgs }
    \cup { [id |-> Cardinality(cfgs) + 1,
            servicesRequired |-> w.body.servicesRequired,
            discountPercentage |-> w.body.discountPercentage,
            validityDays |-> w.body.validityDays,
            isActive |-> TRUE] }

ConfigureWrite(w) ==
  /\ w \in inflight.configWrites
  /\ voucherConfigs' = ConfigureWriteResult(voucherConfigs, w)
  /\ inflight' = [inflight EXCEPT !.configWrites = @ \ {w}]
  /\ last' = [op |-> "configure", res |-> "CREATED"]
  /\ UNCHANGED <<appointments, nextApptId, clientServiceCounts, vouchers, now,
                 completions>>
  /\ UNCHANGED <<businessConfig, slotsResponse, auditSink>>

(* ---------------- overlapping redemption: SpecOverlap ----------------- *)

\* requests of the overlap specification: one configuration, bookings of c1
\* that an administrator completes, and redeem and listing requests of c1
\* whose reads and writes interleave with each other and with the clock
NextOverlap ==
  \/ /\ nextApptId <= MaxAppts
     /\ \E body \in VoucherCreateBodies : CreateAppointment("c1", body)
  \/ \E id \in 1 .. MaxAppts, updates \in VoucherUpdateBodies :
       UpdateAppointment("adm", id, updates)
  \/ /\ voucherConfigs = {}
     /\ \E body \in VoucherConfigBodies : ConfigureVouchers("adm", body)
  \/ /\ Cardinality(inflight.voucherWrites) < MaxInflight
     /\ \E code \in RedeemCodes, appointmentId \in {None, Some(1)} :
          RedeemRead("c1", code, appointmentId)
  \/ /\ Cardinality(inflight.voucherWrites)
          + Cardinality(ListedExpired(vouchers, "c1", now)) <= MaxInflight
     /\ ListRead("c1")
  \/ \E w \in inflight.voucherWrites : VoucherWrite(w)
  \/ now < MaxVoucherNow /\ Tick

SpecOverlap == Init /\ [][NextOverlap]_vars

(* --------------- overlapping configuration: SpecConfig ---------------- *)

\* requests of the configuration specification: values inside and outside
\* the ranges, from an administrator and from a client, reads and writes of
\* different requests interleaved
OverlapConfigBodies ==
  [ servicesRequired : {0, 1}, discountPercentage : {10, 101}, validityDays : {0, 1} ]

NextConfig ==
  \/ /\ Cardinality(inflight.configWrites) < MaxInflight
     /\ Cardinality(voucherConfigs) + Cardinality(inflight.configWrites)
          < MaxOverlapConfigs
     /\ \E user \in {"c1", "adm"}, body \in OverlapConfigBodies :
          ConfigureRead(user, body)
  \/ \E w \in inflight.configWrites : ConfigureWrite(w)

SpecConfig == Init /\ [][NextConfig]_vars

(* ------------------ properties of overlapping requests ---------------- *)

\* C15: of the redeem requests for one voucher that overlap, at most one is
\* answered OK: a redeem is answered OK only while the voucher is not yet
\* USED, and the usedAt and appointment reference of a USED voucher stay
\* those of the request that was answered OK.
C15_OverlappingRedeemsOneWinner ==
  [][\A w \in inflight.voucherWrites :
       (VoucherWrite(w) /\ w.op = "redeem" /\ w.status = "USED") =>
         \A v \in vouchers :
           (v.id = w.voucherId /\ v.status = "USED") =>
             /\ last'.res # "OK"
             /\ v \in vouchers']_vars

\* C18: the status of a voucher only ever changes from ACTIVE to USED or from
\* ACTIVE to EXPIRED, however redeem and listing requests interleave while
\* the clock advances.
C18_VoucherStatusNeverReverses ==
  [][\A v \in vouchers, w \in vouchers' :
       (v.id = w.id /\ v.status # w.status) =>
         (v.status = "ACTIVE" /\ w.status \in {"USED", "EXPIRED"})]_vars

\* C19: at most one voucher configuration is active, also when configure
\* requests overlap.
C19_AtMostOneActiveConfig ==
  Cardinality({ c \in voucherConfigs : c.isActive }) <= 1

\* C20: a configure request with servicesRequired below 1, discountPercentage
\* outside 1..100 or validityDays below 1 is refused as invalid input and
\* stores nothing.
C20_InvalidConfigRefused ==
  [][\A w \in inflight.configWrites :
       ( /\ ConfigureWrite(w)
         /\ \/ w.body.servicesRequired < 1
            \/ w.body.discountPercentage \notin 1 .. 100
            \/ w.body.validityDays < 1 )
       => /\ last'.res = "INVALID_INPUT"
          /\ voucherConfigs' = voucherConfigs]_vars

(* ------------------------- business hours ----------------------------- *)

\* a time of day "HH:MM" is the pair <<HH, MM>> of its two numbers
DayNames ==
  <<"sunday", "monday", "tuesday", "wednesday", "thursday", "friday", "saturday">>

\* a weekly schedule: per day name <<>> (null, closed) or <<[start, end]>>
WeekHours(weekday, saturday, sunday) ==
  [d \in {DayNames[i] : i \in 1 .. 7} |->
     CASE d = "sunday" -> sunday
       [] d = "saturday" -> saturday
       [] OTHER -> weekday]

\* the schedule getBusinessHours answers when none is stored
DefaultBusinessHours ==
  WeekHours(Some([start |-> <<8, 0>>, end |-> <<18, 0>>]),
            Some([start |-> <<8, 0>>, end |-> <<16, 0>>]),
            None)

\* hours * 60 + minutes
ParseTime(timeString) == timeString[1] * 60 + timeString[2]

\* Math.floor(minutes / 60) and minutes % 60, each padded to two digits
FormatTime(minutes) == <<minutes \div 60, minutes % 60>>

\* the loop of generateTimeSlots: while (current < end) push, current += 30
RECURSIVE SlotsFrom(_, _)
SlotsFrom(current, end) ==
  IF current < end
    THEN <<FormatTime(current)>> \o SlotsFrom(current + 30, end)
    ELSE <<>>

\* the loop with the close time included
GenerateTimeSlotsInclusive(startTime, endTime) ==
  SlotsFrom(ParseTime(startTime), ParseTime(endTime) + 1)

GenerateTimeSlots(startTime, endTime) ==
  SlotsFrom(ParseTime(startTime), ParseTime(endTime))

\* zones a server process may run in: UTC (or east of it), or west of UTC
ServerZones == {"UTC", "WEST"}

\* new Date("YYYY-MM-DD").getDay(): the text is read as midnight UTC and
\* getDay answers the weekday of that instant in the server's zone, which is
\* the previous day west of UTC. Date 0 is a Monday.
GetDay(date, zone) == IF zone = "WEST" THEN date % 7 ELSE (date + 1) % 7

\* where appointment_date >= startDate and appointment_date <= endDate
GetAppointmentsByDateRange(appts, startDate, endDate) ==
  { a \in appts : a.appointmentDate >= startDate /\ a.appointmentDate <= endDate }

\* the busy times without the status filter
BusySlotsAnyStatus(appts, date, barberId) ==
  { a.appointmentTime :
      a \in { x \in GetAppointmentsByDateRange(appts, date, date) :
                barberId = None \/ Some(x.barberId) = barberId } }

\* filter by staff member when one is given, then by status, map to the time
BusySlots(appts, date, barberId) ==
  { a.appointmentTime :
      a \in { x \in GetAppointmentsByDateRange(appts, date, date) :
                /\ barberId = None \/ Some(x.barberId) = barberId
                /\ x.status \in {"SCHEDULED", "CONFIRMED", "IN_PROGRESS"} } }

\* the response getAvailableTimeSlots gives; slots is the candidate sequence
\* the handler computed on the way
SlotsResponse(cfg, appts, date, barberId, zone) ==
  IF cfg = None
    THEN [NoSlotsResponse EXCEPT !.code = "BUSINESS_HOURS_NOT_CONFIGURED",
                                 !.date = date, !.barberId = barberId]
  ELSE LET dayName == DayNames[GetDay(date, zone) + 1]
           dayHours == cfg[1][dayName]
       IN IF dayHours = None
            THEN [NoSlotsResponse EXCEPT !.code = "CLOSED", !.date = date,
                                         !.barberId = barberId,
                                         !.dayOfWeek = dayName]
            ELSE LET slots == GenerateTimeSlots(dayHours[1].start, dayHours[1].end)
                     busySlots == BusySlots(appts, date, barberId)
                 IN [code |-> "OK", date |-> date, barberId |-> barberId,
                     dayOfWeek |-> dayName, slots |-> slots,
                     availableSlots |->
                       SelectSeq(slots, LAMBDA slot : slot \notin busySlots),
                     busySlots |-> busySlots]

\* GET /config/available-slots: no authentication
GetAvailableTimeSlots(date, barberId, zone) ==
  /\ slotsResponse' = SlotsResponse(businessConfig, appointments, date, barberId, zone)
  /\ last' = [op |-> "slots", res |-> slotsResponse'.code]
  /\ UNCHANGED <<appointments, nextApptId, clientServiceCounts, voucherConfigs,
                 vouchers, now, completions, inflight, businessConfig,
                 auditSink>>

\* POST /config/hours behind requireAdmin: update the row if it exists,
\* insert it otherwise
SetBusinessHours(user, body) ==
  /\ IF RequireAdmin(user)
       THEN /\ businessConfig' = Some(body)
            /\ last' = [op |-> "hours", res |-> "OK"]
       ELSE /\ businessConfig' = businessConfig
            /\ last' = [op |-> "hours", res |-> "INSUFFICIENT_PERMISSIONS"]
  /\ UNCHANGED <<appointments, nextApptId, clientServiceCounts, voucherConfigs,
                 vouchers, now, completions, inflight, slotsResponse,
                 auditSink>>

(* ----------------------- availability: SpecSlots ---------------------- *)

\* requests of the availability specification: bookings on both dates at two
\* times with both barbers, status changes by the administrator, two weekly
\* schedules, queries with and without a staff filter
SlotTimes == {<<8, 0>>, <<8, 30>>}

SlotCreateBodies ==
  [ clientId : {"c1"},
    barberId : {"b1", "b2"},
    appointmentDate : Dates,
    appointmentTime : SlotTimes,
    status : {Undefined},
    notes : {<<>>},
    price : {Undefined} ]

SlotUpdateBodies ==
  [ status : {"CONFIRMED", "COMPLETED", "CANCELLED"},
    notes : {<<Undefined>>}, price : {Undefined} ]

\* the default week, and a week open on Monday only, closing off the grid
HoursBodies ==
  { DefaultBusinessHours,
    WeekHours(None, None, None)
      @@ ("monday" :> Some([start |-> <<8, 30>>, end |-> <<10, 15>>])) }

SlotBarberFilters == {None, Some("b1"), Some("b2")}

NextSlots ==
  \/ /\ nextApptId <= MaxAppts
     /\ \E body \in SlotCreateBodies : CreateAppointment("c1", body)
  \/ \E id \in 1 .. MaxAppts, updates \in SlotUpdateBodies :
       UpdateAppointment("adm", id, updates)
  \/ \E user \in {"adm", "c1"}, body \in HoursBodies : SetBusinessHours(user, body)
  \/ \E date \in Dates, barberId \in SlotBarberFilters, zone \in ServerZones :
       GetAvailableTimeSlots(date, barberId, zone)

SpecSlots == Init /\ [][NextSlots]_vars

(* ---------------------- properties of availability ------------------- *)

C22_AvailableIsCandidatesMinusBooked ==
  [][last'.op = "slots" =>
       LET r == slotsResponse'
           taken == { a.appointmentTime :
                        a \in { x \in appointments :
                                  /\ x.appointmentDate = r.date
                                  /\ x.status \in NonTerminal
                                  /\ r.barberId \in {None, Some(x.barberId)} } }
       IN /\ r.code = "OK" =>
               r.availableSlots = SelectSeq(r.slots, LAMBDA t : t \notin taken)
          /\ UNCHANGED <<appointments, nextApptId, clientServiceCounts,
                         voucherConfigs, vouchers, businessConfig>>]_vars

\* a query with a staff filter just answered: one time is taken by a
\* confirmed appointment of that barber, another of the same date is held by
\* a cancelled appointment and is still offered
C22_Witness ==
  /\ last.op = "slots"
  /\ slotsResponse.code = "OK"
  /\ slotsResponse.barberId = Some("b1")
  /\ \E a, b \in appointments :
       /\ a.appointmentDate = slotsResponse.date
       /\ b.appointmentDate = slotsResponse.date
       /\ a.status = "CONFIRMED"
       /\ b.status = "CANCELLED"
       /\ a.appointmentTime \in slotsResponse.busySlots
       /\ \E i \in 1 .. Len(slotsResponse.slots) :
            slotsResponse.slots[i] = a.appointmentTime
       /\ \A i \in 1 .. Len(slotsResponse.availableSlots) :
            slotsResponse.availableSlots[i] # a.appointmentTime
       /\ \E i \in 1 .. Len(slotsResponse.availableSlots) :
            slotsResponse.availableSlots[i] = b.appointmentTime

\* C23: when no business hours are stored, the availability query does not
\* fail: it answers the slots of the default weekly schedule (Monday to
\* Friday 08:00-18:00, Saturday 08:00-16:00, Sunday closed).
C23_NoHoursFallsBackToDefault ==
  [][(last'.op = "slots" /\ businessConfig = None) =>
       /\ slotsResponse'.code \in {"OK", "CLOSED"}
       /\ \E zone \in ServerZones :
            slotsResponse' =
              SlotsResponse(Some(DefaultBusinessHours), appointments,
                            slotsResponse'.date, slotsResponse'.barberId, zone)]_vars

(* ------------------------ audit sink: SpecAudit ----------------------- *)

\* requests of the audit specification: bookings, completions and
\* cancellations, deletions, one voucher configuration and redemptions, while
\* the audit sink breaks and recovers
AuditUpdateBodies ==
  [ status : {"COMPLETED", "CANCELLED"}, notes : {<<Undefined>>}, price : {Undefined} ]

AuditUsers == {"c1", "adm"}

AuditAppointmentRefs == {None, Some(1)}

NextAudit ==
  \/ /\ nextApptId <= MaxAppts
     /\ \E body \in VoucherCreateBodies : CreateAppointment("c1", body)
  \/ \E user \in AuditUsers, id \in 1 .. MaxAppts, updates \in AuditUpdateBodies :
       UpdateAppointment(user, id, updates)
  \/ \E user \in AuditUsers, id \in 1 .. MaxAppts : DeleteAppointment(user, id)
  \/ /\ Cardinality(voucherConfigs) < MaxConfigs
     /\ \E body \in VoucherConfigBodies : ConfigureVouchers("adm", body)
  \/ \E code \in RedeemCodes, appointmentId \in AuditAppointmentRefs :
       RedeemVoucher("c1", code, appointmentId)
  \/ now < MaxLoyaltyNow /\ Tick
  \/ \E sk \in SinkStates : SinkChange(sk)

SpecAudit == Init /\ [][NextAudit]_vars

\* C24: for create, updateStatus, delete and redeem, a failure of the audit
\* sink (the log write or the logging-enabled lookup) changes neither the
\* result returned to the caller nor the effect on appointments, ledger and
\* vouchers: the step taken while the sink fails is the step the same call
\* takes when the sink works.
C24_SinkFailureChangesNothing ==
  [][auditSink # "ok" =>
       /\ last'.op = "create" =>
            \A body \in VoucherCreateBodies :
              CreateAppointment("c1", body) =>
                CreateAppointmentWithSink("c1", body, "ok")
       /\ last'.op = "update" =>
            \A user \in AuditUsers, id \in 1 .. MaxAppts,
               updates \in AuditUpdateBodies :
              UpdateAppointment(user, id, updates) =>
                UpdateAppointmentWithSink(user, id, updates, "ok")
       /\ last'.op = "delete" =>
            \A user \in AuditUsers, id \in 1 .. MaxAppts :
              DeleteAppointment(user, id) =>
                DeleteAppointmentWithSink(user, id, "ok")
       /\ last'.op = "redeem" =>
            \A code \in RedeemCodes, appointmentId \in AuditAppointmentRefs :
              RedeemVoucher("c1", code, appointmentId) =>
                RedeemVoucherWithSink("c1", code, appointmentId, "ok")]_vars

\* the insert into system_logs fails and a completion has just been answered
\* OK, counted and rewarded with a voucher
C24_Witness ==
  /\ auditSink = "write_fails"
  /\ last = [op |-> "update", res |-> "OK"]
  /\ \E a \in appointments : a.status = "COMPLETED"
  /\ \E r \in clientServiceCounts : r.completedServices = 1
  /\ vouchers # {}

(* -------------------- properties of the state graph ------------------- *)

\* C25: updateStatus only performs transitions of the declared state graph:
\* from a non-terminal status an appointment moves to CONFIRMED, IN_PROGRESS,
\* COMPLETED or CANCELLED, never from CONFIRMED or IN_PROGRESS back to
\* SCHEDULED; a request for such a transition is refused and leaves the
\* appointment unchanged.
C25_NoWayBackToScheduled ==
  [][last'.op = "update" =>
       \A a \in appointments, b \in appointments' :
         (a.id = b.id /\ a.status \in {"CONFIRMED", "IN_PROGRESS"}) =>
           b.status # "SCHEDULED"]_vars

(* ------------------- properties of the recorded spend ----------------- *)

\* C29: on a transition into COMPLETED the amount added to the client's
\* cumulative spend is the price stored on the appointment before the call
\* (zero if none is stored), also when the same call supplies a new price;
\* the supplied price is written to the appointment.
C29_SpendIsStoredPrice ==
  [][last'.op = "update" =>
       \A user \in LoyaltyUsers, id \in 1 .. MaxLoyaltyAppts,
          updates \in LoyaltyUpdateBodies :
         ( /\ \E a \in appointments, b \in appointments' :
                a.id = id /\ b.id = id /\ a.status # "COMPLETED"
                  /\ b.status = "COMPLETED"
           /\ UpdateAppointment(user, id, updates) ) =>
           LET a == CHOOSE x \in appointments : x.id = id
               b == CHOOSE x \in appointments' : x.id = id
               before == IF \E r \in clientServiceCounts : r.userId = a.clientId
                           THEN (CHOOSE r \in clientServiceCounts :
                                   r.userId = a.clientId).totalSpent
                           ELSE 0
               after == (CHOOSE r \in clientServiceCounts' :
                           r.userId = a.clientId).totalSpent
           IN /\ \E r \in clientServiceCounts' : r.userId = a.clientId
              /\ after = before + (IF a.price = "10.00" THEN 10 ELSE 0)
              /\ updates.price # Undefined => b.price = updates.price]_vars

\* the one appointment was booked without a price and completed by a call
\* that supplied 10.00: the price is stored, the spend recorded is zero
C29_Witness ==
  /\ last = [op |-> "update", res |-> "OK"]
  /\ nextApptId = 2
  /\ \E a \in appointments :
       /\ a.status = "COMPLETED"
       /\ a.price = "10.00"
       /\ completions[a.clientId] = 1
       /\ \E r \in clientServiceCounts :
            r.userId = a.clientId /\ r.completedServices = 1 /\ r.totalSpent = 0

(* ------------- overlapping status updates: SpecRace ------------------- *)

\* updateAppointment up to getAppointment and checkUpdatePermissions: a
\* refusal answers at once; otherwise the request goes on, to the ledger when
\* the row read is not COMPLETED and the body asks for COMPLETED
UpdateRead(user, id, updates) ==
  LET res == UpdateResponse(appointments, user, id, updates) IN
  /\ IF res \in {"APPOINTMENT_NOT_FOUND", "UPDATE_PERMISSION_DENIED"}
       THEN /\ inflight' = inflight
            /\ last' = [op |-> "update", res |-> res]
       ELSE LET existing == GetAppointment(appointments, id) IN
            /\ inflight' =
                 [inflight EXCEPT !.updates = @ \cup
                    { [req |-> FreeReq(@), user |-> user, id |-> id,
                       updates |-> updates,
                       marks |-> MarksCompleted(updates, existing),
                       clientId |-> existing.clientId,
                       appointmentPrice |-> AppointmentPrice(existing, updates),
                       stage |-> IF MarksCompleted(updates, existing)
                                   THEN "count" ELSE "write",
                       completedServices |-> 0,
                       totalSpent |-> 0] }]
            /\ last' = [op |-> "updateRead", res |-> "none"]
  /\ UNCHANGED <<appointments, nextApptId, clientServiceCounts, voucherConfigs,
                 vouchers, now, completions>>
  /\ UNCHANGED <<businessConfig, slotsResponse, auditSink>>

\* getClientServiceCount: the count and the spend the request will add to
UpdateReadCount(w) ==
  /\ w \in inflight.updates
  /\ w.stage = "count"
  /\ \E sc \in ReadServiceCount(clientServiceCounts, w.clientId) :
       /\ sc.completedServices + 1 <= MaxCount
       /\ inflight' =
            [inflight EXCEPT !.updates = (@ \ {w}) \cup
               { [w EXCEPT !.stage = "write",
                           !.completedServices = sc.completedServices,
                           !.totalSpent = sc.totalSpent] }]
  /\ last' = [op |-> "updateCount", res |-> "none"]
  /\ UNCHANGED <<appointments, nextApptId, clientServiceCounts, voucherConfigs,
                 vouchers, now, completions>>
  /\ UNCHANGED <<businessConfig, slotsResponse, auditSink>>

\* the rest of updateAppointment: updateClientServiceCount with the values
\* computed from the count read, checkAndCreateVoucher, then
\* storage.updateAppointment where id = id, whatever the row holds by now
UpdateWrite(w) ==
  /\ w \in inflight.updates
  /\ w.stage = "write"
  /\ LET res == IF UpdateThrows(UpdateData(w.updates)) THEN "INTERNAL_ERROR"
                ELSE IF ~HasAppointment(appointments, w.id) THEN "UPDATE_ERROR"
                ELSE "OK"
     IN /\ IF w.marks
             THEN /\ clientServiceCounts' =
                       UpdateClientServiceCount(clientServiceCounts, w.clientId,
                         w.completedServices + 1,
                         w.totalSpent + w.appointmentPrice)
                  /\ vouchers' =
                       CheckAndCreateVoucher(vouchers, voucherConfigs, w.clientId,
                                             w.completedServices + 1, now)
             ELSE UNCHANGED <<clientServiceCounts, vouchers>>
        /\ appointments' =
             IF res = "OK"
               THEN StorageUpdateAppointment(appointments, w.id, UpdateData(w.updates))
               ELSE appointments
        /\ completions' =
             IF /\ res = "OK"
                /\ GetAppointment(appointments, w.id).status # "COMPLETED"
                /\ GetAppointment(appointments', w.id).status = "COMPLETED"
               THEN [completions EXCEPT ![w.clientId] = @ + 1]
               ELSE completions
        /\ last' = [op |-> "update", res |-> LoggedResponse(res, "OK", auditSink)]
  /\ inflight' = [inflight EXCEPT !.updates = @ \ {w}]
  /\ UNCHANGED <<nextApptId, voucherConfigs, now>>
  /\ UNCHANGED <<businessConfig, slotsResponse, auditSink>>

\* requests of the race specification: priced bookings of c1, one voucher
\* configuration, completions by the administrator that overlap, deletions,
\* redemptions and the clean-up task
RaceCreateBodies ==
  [ clientId : {"c1"},
    barberId : {"b1"},
    appointmentDate : {0},
    appointmentTime : Times,
    status : {Undefined},
    notes : {<<>>},
    price : {"10.00"} ]

RaceUpdateBodies ==
  { [status |-> "COMPLETED", notes |-> <<Undefined>>, price |-> Undefined] }

NextRace ==
  \/ /\ nextApptId <= MaxAppts
     /\ \E body \in RaceCreateBodies : CreateAppointment("c1", body)
  \/ /\ Cardinality(voucherConfigs) < MaxConfigs
     /\ \E body \in VoucherConfigBodies : ConfigureVouchers("adm", body)
  \/ /\ Cardinality(inflight.updates) < MaxInflight
     /\ \E id \in 1 .. MaxAppts, updates \in RaceUpdateBodies :
          UpdateRead("adm", id, updates)
  \/ \E w \in inflight.updates : UpdateReadCount(w)
  \/ \E w \in inflight.updates : UpdateWrite(w)
  \/ \E id \in 1 .. MaxAppts : DeleteAppointment("adm", id)
  \/ \E code \in RedeemCodes : RedeemVoucher("c1", code, None)
  \/ CleanupTask
  \/ now < MaxNow /\ Tick

SpecRace == Init /\ [][NextRace]_vars

(* ---------------- properties of overlapping completions --------------- *)

\* C27: when two updateStatus(COMPLETED) calls on the same non-COMPLETED
\* appointment overlap, the client's count grows by exactly 1 in total and at
\* most one voucher is issued: the call whose write finds the appointment
\* already COMPLETED by the other adds nothing to the ledger and issues no
\* voucher.
C27_OverlappingCompletionCountsOnce ==
  [][last'.op = "update" =>
       \A w \in inflight.updates :
         ( /\ w.stage = "write"
           /\ w.marks
           /\ HasAppointment(appointments, w.id)
           /\ GetAppointment(appointments, w.id).status = "COMPLETED"
           /\ UpdateWrite(w) ) =>
           /\ clientServiceCounts' = clientServiceCounts
           /\ vouchers' = vouchers]_vars

\* C28: when completions of distinct appointments of one client overlap, no
\* increment is lost: once no request is pending, the client's count is at
\* least the number of appointments that moved into COMPLETED and the spend
\* at least the sum of their prices.
C28_NoIncrementLost ==
  inflight.updates = {} =>
    \A u \in Users :
      completions[u] > 0 =>
        \E r \in clientServiceCounts :
          /\ r.userId = u
          /\ r.completedServices >= completions[u]
          /\ r.totalSpent >= 10 * completions[u]

\* C30: the completed-service count of a client never decreases, in any step
\* of any interleaving of updateStatus, create, delete, the clean-up task,
\* redeem and configure.
C30_CountNeverDecreases ==
  [][\A r \in clientServiceCounts, q \in clientServiceCounts' :
       r.userId = q.userId => q.completedServices >= r.completedServices]_vars

(* ---------------- the clean-up task in steps: SpecSweep --------------- *)

\* the task up to getOldPendingAppointments: the rows read are left to be
\* updated one by one, in the order the query happened to answer them
CleanupRead ==
  LET listed == GetOldPendingAppointments(appointments, DateOf(now)) IN
  /\ \A a \in listed : AutoNotes(a.notes) < MaxAutoNotes
  /\ inflight' =
       IF listed = {} THEN inflight
       ELSE [inflight EXCEPT !.sweeps = @ \cup
               { [req |-> FreeReq(@),
                  rows |-> { [id |-> a.id, notes |-> a.notes] : a \in listed }] }]
  /\ last' = [op |-> "cleanupRead", res |-> "none"]
  /\ UNCHANGED <<appointments, nextApptId, clientServiceCounts, voucherConfigs,
                 vouchers, now, completions>>
  /\ UNCHANGED <<businessConfig, slotsResponse, auditSink>>

\* one turn of the loop: updateAppointment(id, {status: 'CANCELLED', notes:
\* the notes read + the annotation}) where id = id, whatever the row holds
\* by now
CleanupWrite(sweep, row) ==
  /\ sweep \in inflight.sweeps
  /\ row \in sweep.rows
  /\ appointments' =
       StorageUpdateAppointment(appointments, row.id,
         [status |-> "CANCELLED", notes |-> CancelledNotes(row.notes),
          price |-> Undefined])
  /\ inflight' =
       [inflight EXCEPT !.sweeps =
          (@ \ {sweep}) \cup
            (IF sweep.rows = {row} THEN {}
             ELSE { [sweep EXCEPT !.rows = @ \ {row}] })]
  /\ last' = [op |-> "cleanupWrite", res |-> "none"]
  /\ UNCHANGED <<nextApptId, clientServiceCounts, voucherConfigs, vouchers, now,
                 completions>>
  /\ UNCHANGED <<businessConfig, slotsResponse, auditSink>>

\* requests of the sweep specification: bookings of c1 for the first day,
\* confirmations and completions by the administrator, clean-up tasks that
\* overlap with them and with each other
SweepCreateBodies ==
  [ clientId : {"c1"},
    barberId : {"b1"},
    appointmentDate : {0},
    appointmentTime : Times,
    status : {Undefined},
    notes : {<<>>, <<UserNote>>},
    price : {Undefined} ]

SweepUpdateBodies ==
  [ status : {"CONFIRMED", "COMPLETED"}, notes : {<<Undefined>>}, price : {Undefined} ]

NextSweep ==
  \/ /\ nextApptId <= MaxAppts
     /\ \E body \in SweepCreateBodies : CreateAppointment("c1", body)
  \/ \E id \in 1 .. MaxAppts, updates \in SweepUpdateBodies :
       UpdateAppointment("adm", id, updates)
  \/ Cardinality(inflight.sweeps) < MaxInflight /\ CleanupRead
  \/ \E sweep \in inflight.sweeps : \E row \in sweep.rows : CleanupWrite(sweep, row)
  \/ now < MaxNow /\ Tick

SpecSweep == Init /\ [][NextSweep]_vars

\* C26: the clean-up task cancels an appointment only if it is still
\* SCHEDULED at the moment of the write: an appointment that an updateStatus
\* call has moved to CONFIRMED, IN_PROGRESS or COMPLETED since the task read
\* it is not overwritten to CANCELLED, also when two tasks overlap, and the
\* auto-cancellation note is appended to an appointment at most once.
C26_SweepWritesOnlyScheduled ==
  [][last'.op = "cleanupWrite" =>
       \A a \in appointments, b \in appointments' :
         a.id = b.id =>
           /\ a.status \in {"CONFIRMED", "IN_PROGRESS", "COMPLETED"} =>
                b.status # "CANCELLED"
           /\ AutoNotes(b.notes) <= 1]_vars

====
